---- MODULE Spec2Model ----
(***************************************************************************)
(* A model of sqla_helpers.py: the context manager session_scope and the   *)
(* retry decorator resolve_transaction_conflicts.                          *)
(*                                                                         *)
(* A session is an external object; the model records, per session, the    *)
(* calls it received (calls[s]) and whether each returned or raised.  The  *)
(* wrapped function and the body of the scope are external too: every      *)
(* invocation returns a value or raises an error, chosen freely.           *)
(***************************************************************************)
EXTENDS Integers, Sequences, FiniteSets, TLC

\* ---------------------------------------------------------------- bounds
MaxRetries == 2
NumSessions == 3
NumCallers == 2

Sessions == 1 .. NumSessions
\* hasattr(self, ...) is false
NoAttr == 0
\* who issued a session call: the scope, or a caller of the wrapper (1, 2, ..)
Scope == 0

Values == {"ok", "row"}
SessionOps == {"begin", "commit", "rollback", "close"}

\* ---------------------------------------------------------------- errors
\* An error object: its class, its error code, where it was raised (src) and
\* a serial (at) that tells two errors of the same kind apart.
Err(cls, code, src, at) == [cls |-> cls, code |-> code, src |-> src, at |-> at]
NoExc == Err("None", "", "", 0)

\* What a function or a body can raise: a transient conflict, another
\* operational error, an ordinary exception, or an error that is no Exception
\* (KeyboardInterrupt, SystemExit).
ErrorKinds ==
    { <<"OperationalError", "conflict">>, <<"OperationalError", "fatal">>,
      <<"Exception", "">>, <<"BaseException", "">> }

\* The classifier: a predicate over the attributes of the caught error.
is_retryable_exception(exc) == exc.code = "conflict"

\* An operational error raised by a session call.
SessionError(op, at) == Err("OperationalError", "fatal", op, at)

\* ---------------------------------------------------------------- state
VARIABLES
    retries,    \* the decorator's retries argument
    logger,     \* whether a logger was given to the decorator
    callers,    \* the invocations of the wrapper that take place
    receiver,   \* receiver[c]: the _session and _mapper.session attributes of self
    pc,         \* pc[c]: where invocation c of wrapped is
    attempts,   \* attempts[c]: the local attempts
    session,    \* session[c]: the local session
    exc,        \* exc[c]: the error caught from func
    trace,      \* trace[c]: what the wrapper did, in order
    results,    \* results[c]: how each invocation of func ended, in order
    logs,       \* logs[c]: the attempt numbers given to logger.debug
    outcome,    \* outcome[c]: how the invocation ended
    calls,      \* calls[s]: the calls session s received
    spc,        \* where session_scope is
    ssession,   \* the session given to session_scope
    sbody,      \* how the body of the with statement ended
    sexc,       \* the error in flight in session_scope
    soutcome    \* how the with statement ended

wvars == <<pc, attempts, session, exc, trace, results, logs, outcome>>
cvars == <<retries, logger, callers, receiver>>
svars == <<spc, ssession, sbody, sexc, soutcome>>
vars == <<retries, logger, callers, receiver, pc, attempts, session, exc,
          trace, results, logs, outcome, calls, spc, ssession, sbody, sexc,
          soutcome>>

Receivers == [sess : Sessions \cup {NoAttr}, mapper : Sessions \cup {NoAttr}]

NoOutcome == [kind |-> "none", value |-> "", exc |-> NoExc, cause |-> NoExc, reported |-> 0]
Returned(v) == [kind |-> "returned", value |-> v, exc |-> NoExc, cause |-> NoExc, reported |-> 0]
Raised(e) == [kind |-> "raised", value |-> "", exc |-> e, cause |-> NoExc, reported |-> 0]
RaisedFrom(e, cause, n) == [kind |-> "raised", value |-> "", exc |-> e, cause |-> cause, reported |-> n]

\* One call on session s by `by`, which returned (ok) or raised.
Called(s, op, by, ok) ==
    calls' = [calls EXCEPT ![s] = Append(@, [op |-> op, by |-> by, ok |-> ok])]

\* ------------------------------------------------- resolve_transaction_conflicts
\* Mutant: a receiver without either attribute falls back on a default session.
resolve_session_default(rcv) ==
    IF rcv.sess # NoAttr THEN rcv.sess
    ELSE IF rcv.mapper # NoAttr THEN rcv.mapper
    ELSE 1

\* Lines 50-57: the session of the receiver; _session wins over _mapper.
resolve_session(rcv) ==
    IF rcv.sess # NoAttr THEN rcv.sess
    ELSE IF rcv.mapper # NoAttr THEN rcv.mapper
    ELSE NoAttr

\* Mutant: while attempts < retries
loop_condition_strict(a, r) == a < r

\* Line 59: while attempts <= retries
loop_condition(a, r) == a <= r

\* Mutant: every OperationalError is retried, the classifier is not asked.
handler_retry_any_operational(e) ==
    IF e.cls = "OperationalError" THEN "retry"
    ELSE IF e.cls = "Exception" THEN "reraise" ELSE "propagate"

\* Lines 63, 64, 79, 84: the except clause that takes an error raised by func.
\* "retry": an OperationalError that is retryable; "reraise": another
\* OperationalError or another Exception; "propagate": not an Exception, no
\* clause catches it.
handler(e) ==
    IF e.cls = "OperationalError"
    THEN IF is_retryable_exception(e) THEN "retry" ELSE "reraise"
    ELSE IF e.cls = "Exception" THEN "reraise" ELSE "propagate"

\* Mutant: the check of the budget is missing.
budget_exhausted_never(a, r) == FALSE

\* Mutant: if attempts >= retries
budget_exhausted_at_limit(a, r) == a >= r

\* Line 68: if attempts > retries
budget_exhausted(a, r) == a > r

\* Mutant: the message is formatted with attempts instead of retries.
unresolved_reports_attempts(e, a, r, at) ==
    RaisedFrom(Err("UnresolvedDatabaseConflict", "", "wrapper", at), e, a)

\* Mutant: raise UnresolvedDatabaseConflict(...) without "from exc".
unresolved_without_cause(e, a, r, at) ==
    RaisedFrom(Err("UnresolvedDatabaseConflict", "", "wrapper", at), NoExc, r)

\* Lines 69-71: the error raised when the budget is exhausted; its message is
\* formatted with func and retries, its cause is the caught error.
unresolved(e, a, r, at) ==
    RaisedFrom(Err("UnresolvedDatabaseConflict", "", "wrapper", at), e, r)

\* Mutant: "continue" without session.begin().
after_sleep_no_begin(lg) == IF lg THEN "log" ELSE "loop"

\* Lines 73-77: after the sleep, the debug message if there is a logger.
after_sleep(lg) == IF lg THEN "log" ELSE "begin"

Did(c, ev) == trace' = [trace EXCEPT ![c] = Append(@, ev)]
FuncEnded(c, r) == results' = [results EXCEPT ![c] = Append(@, r)]

\* Lines 48-57: attempts = 0, then the session of self, or RuntimeError.
wrapped_enter(c) ==
    /\ pc[c] = "idle"
    /\ attempts' = [attempts EXCEPT ![c] = 0]
    /\ LET s == resolve_session(receiver[c]) IN
         IF s # NoAttr
         THEN /\ session' = [session EXCEPT ![c] = s]
              /\ pc' = [pc EXCEPT ![c] = "loop"]
              /\ UNCHANGED outcome
         ELSE /\ outcome' = [outcome EXCEPT ![c] = Raised(Err("RuntimeError", "", "wrapper", 0))]
              /\ pc' = [pc EXCEPT ![c] = "done"]
              /\ UNCHANGED session
    /\ UNCHANGED <<results, exc, trace, logs, calls, cvars, svars>>

\* Line 59: the loop test; falling off the loop returns None.
wrapped_loop(c) ==
    /\ pc[c] = "loop"
    /\ IF loop_condition(attempts[c], retries)
       THEN /\ pc' = [pc EXCEPT ![c] = "call"]
            /\ UNCHANGED outcome
       ELSE /\ pc' = [pc EXCEPT ![c] = "done"]
            /\ outcome' = [outcome EXCEPT ![c] = Returned("None")]
    /\ UNCHANGED <<results, attempts, session, exc, trace, logs, calls, cvars, svars>>

\* Mutant: the value is kept and the session closed before it is returned.
wrapped_func_returns_then_close(c) ==
    /\ pc[c] = "call"
    /\ \E v \in Values :
         /\ FuncEnded(c, Returned(v))
         /\ outcome' = [outcome EXCEPT ![c] = Returned(v)]
    /\ trace' = [trace EXCEPT ![c] = Append(Append(@, "call"), "close")]
    /\ Called(session[c], "close", c, TRUE)
    /\ pc' = [pc EXCEPT ![c] = "done"]
    /\ UNCHANGED <<attempts, session, exc, logs, cvars, svars>>

\* Lines 60-61: func returns, and the wrapper returns its value.
wrapped_func_returns(c) ==
    /\ pc[c] = "call"
    /\ \E v \in Values :
         /\ FuncEnded(c, Returned(v))
         /\ outcome' = [outcome EXCEPT ![c] = Returned(v)]
    /\ Did(c, "call")
    /\ pc' = [pc EXCEPT ![c] = "done"]
    /\ UNCHANGED <<attempts, session, exc, logs, calls, cvars, svars>>

\* Lines 60-64, 79, 84: func raises; the except clause that takes the error.
wrapped_func_raises(c) ==
    /\ pc[c] = "call"
    /\ Did(c, "call")
    /\ \E k \in ErrorKinds :
         LET e == Err(k[1], k[2], "func", Len(trace[c]) + 1)
             h == handler(e)
         IN  /\ FuncEnded(c, Raised(e))
             /\ IF h = "propagate"
                THEN /\ outcome' = [outcome EXCEPT ![c] = Raised(e)]
                     /\ pc' = [pc EXCEPT ![c] = "done"]
                     /\ UNCHANGED exc
                ELSE /\ exc' = [exc EXCEPT ![c] = e]
                     /\ pc' = [pc EXCEPT ![c] = IF h = "retry" THEN "close" ELSE "rollback"]
                     /\ UNCHANGED outcome
    /\ UNCHANGED <<attempts, session, logs, calls, cvars, svars>>

\* A session call of the wrapper: it returns and the wrapper goes on to
\* `next`, or it raises and its error leaves the wrapper.
wrapped_session_call(c, op, next) ==
    /\ Did(c, op)
    /\ \E ok \in BOOLEAN :
         /\ Called(session[c], op, c, ok)
         /\ IF ok
            THEN /\ pc' = [pc EXCEPT ![c] = next]
                 /\ UNCHANGED outcome
            ELSE /\ pc' = [pc EXCEPT ![c] = "done"]
                 /\ outcome' = [outcome EXCEPT ![c] =
                        Raised(SessionError(op, Len(trace[c]) + 1))]

\* Line 65: session.close()
wrapped_close(c) ==
    /\ pc[c] = "close"
    /\ wrapped_session_call(c, "close", "count")
    /\ UNCHANGED <<results, attempts, session, exc, logs, cvars, svars>>

\* Mutant: attempts lives in the decorator's closure, one counter for all the
\* invocations in progress.
wrapped_count_shared(c) ==
    /\ pc[c] = "count"
    /\ attempts' = [d \in callers |-> attempts[d] + 1]
    /\ IF budget_exhausted(attempts[c] + 1, retries)
       THEN /\ outcome' = [outcome EXCEPT ![c] =
                   unresolved(exc[c], attempts[c] + 1, retries, Len(trace[c]))]
            /\ pc' = [pc EXCEPT ![c] = "done"]
       ELSE /\ pc' = [pc EXCEPT ![c] = "sleep"]
            /\ UNCHANGED outcome
    /\ UNCHANGED <<results, session, exc, trace, logs, calls, cvars, svars>>

\* Mutant: attempts is not incremented.
wrapped_count_no_increment(c) ==
    /\ pc[c] = "count"
    /\ IF budget_exhausted(attempts[c], retries)
       THEN /\ outcome' = [outcome EXCEPT ![c] =
                   unresolved(exc[c], attempts[c], retries, Len(trace[c]))]
            /\ pc' = [pc EXCEPT ![c] = "done"]
       ELSE /\ pc' = [pc EXCEPT ![c] = "sleep"]
            /\ UNCHANGED outcome
    /\ UNCHANGED <<attempts, results, session, exc, trace, logs, calls, cvars, svars>>

\* Lines 67-71: attempts += 1, and UnresolvedDatabaseConflict past the budget.
wrapped_count(c) ==
    /\ pc[c] = "count"
    /\ attempts' = [attempts EXCEPT ![c] = @ + 1]
    /\ IF budget_exhausted(attempts[c] + 1, retries)
       THEN /\ outcome' = [outcome EXCEPT ![c] =
                   unresolved(exc[c], attempts[c] + 1, retries, Len(trace[c]))]
            /\ pc' = [pc EXCEPT ![c] = "done"]
       ELSE /\ pc' = [pc EXCEPT ![c] = "sleep"]
            /\ UNCHANGED outcome
    /\ UNCHANGED <<results, session, exc, trace, logs, calls, cvars, svars>>

\* Line 73: time.sleep(0.1)
wrapped_sleep(c) ==
    /\ pc[c] = "sleep"
    /\ Did(c, "sleep")
    /\ pc' = [pc EXCEPT ![c] = after_sleep(logger)]
    /\ UNCHANGED <<results, attempts, session, exc, logs, outcome, calls, cvars, svars>>

\* Mutant: the message is logged with the attempt number before the increment.
wrapped_log_stale(c) ==
    /\ pc[c] = "log"
    /\ Did(c, "log")
    /\ logs' = [logs EXCEPT ![c] = Append(@, attempts[c] - 1)]
    /\ pc' = [pc EXCEPT ![c] = "begin"]
    /\ UNCHANGED <<results, attempts, session, exc, outcome, calls, cvars, svars>>

\* Lines 74-75: logger.debug(..., attempts)
wrapped_log(c) ==
    /\ pc[c] = "log"
    /\ Did(c, "log")
    /\ logs' = [logs EXCEPT ![c] = Append(@, attempts[c])]
    /\ pc' = [pc EXCEPT ![c] = "begin"]
    /\ UNCHANGED <<results, attempts, session, exc, outcome, calls, cvars, svars>>

\* Lines 77-78: session.begin(); continue
wrapped_begin(c) ==
    /\ pc[c] = "begin"
    /\ wrapped_session_call(c, "begin", "loop")
    /\ UNCHANGED <<results, attempts, session, exc, logs, cvars, svars>>

\* Mutant: the except clauses go straight to begin(), without the rollback.
wrapped_rollback_skipped(c) ==
    /\ pc[c] = "rollback"
    /\ pc' = [pc EXCEPT ![c] = "rebegin"]
    /\ UNCHANGED <<results, attempts, session, exc, trace, logs, outcome, calls,
                   cvars, svars>>

\* Lines 80 and 85: session.rollback()
wrapped_rollback(c) ==
    /\ pc[c] = "rollback"
    /\ wrapped_session_call(c, "rollback", "rebegin")
    /\ UNCHANGED <<results, attempts, session, exc, logs, cvars, svars>>

\* Lines 81-82 and 86-87: session.begin(); raise
wrapped_reraise(c) ==
    /\ pc[c] = "rebegin"
    /\ Did(c, "begin")
    /\ \E ok \in BOOLEAN :
         /\ Called(session[c], "begin", c, ok)
         /\ outcome' = [outcome EXCEPT ![c] =
                IF ok THEN Raised(exc[c])
                ELSE Raised(SessionError("begin", Len(trace[c]) + 1))]
    /\ pc' = [pc EXCEPT ![c] = "done"]
    /\ UNCHANGED <<results, attempts, session, exc, logs, cvars, svars>>

\* The steps of wrapped, each by any of the invocations.
Enter == \E c \in callers : wrapped_enter(c)
Loop == \E c \in callers : wrapped_loop(c)
FuncReturns == \E c \in callers : wrapped_func_returns(c)
FuncRaises == \E c \in callers : wrapped_func_raises(c)
Close == \E c \in callers : wrapped_close(c)
Count == \E c \in callers : wrapped_count(c)
Sleep == \E c \in callers : wrapped_sleep(c)
Log == \E c \in callers : wrapped_log(c)
Begin == \E c \in callers : wrapped_begin(c)
Rollback == \E c \in callers : wrapped_rollback(c)
Reraise == \E c \in callers : wrapped_reraise(c)

\* ---------------------------------------------------------- session_scope
\* Mutant: except Exception: instead of the bare except:
scope_catches_exception_only(e) == e.cls # "BaseException"

\* Line 8: the bare except clause takes every error.
scope_catches(e) == TRUE

\* Mutant: the commit is left out.
after_body_skip_commit(r) ==
    IF r.kind = "returned" THEN "close"
    ELSE "rollback"

\* Lines 6-8: where the generator goes when the body ended: on to commit, or
\* into the except clause if it takes the error, else straight to finally.
after_body(r) ==
    IF r.kind = "returned" THEN "commit"
    ELSE IF scope_catches(r.exc) THEN "rollback" ELSE "close"

\* Mutant: commit outside the try statement: its error leaves at once.
after_commit_no_finally(ok, e) == IF ok THEN "close" ELSE "done"

\* Mutant: commit after the try/except, inside finally's reach only.
after_commit_no_rollback(ok, e) == "close"

\* Lines 7-8, 11: commit is inside the try: its error goes to the except clause.
after_commit(ok, e) ==
    IF ok THEN "close"
    ELSE IF scope_catches(e) THEN "rollback" ELSE "close"

\* Mutant: close() after the try statement instead of in finally.
after_rollback_no_finally(ok) == "done"

\* Lines 9-12: after rollback, returned or not, only finally is left.
after_rollback(ok) == "close"

\* A session call of the scope on its session.
scope_called(op, ok) == Called(ssession, op, Scope, ok)
ScopeError(op) == SessionError(op, Len(calls[ssession]) + 1)

\* Line 4: session.begin(), before the try statement.
scope_enter ==
    /\ spc = "idle"
    /\ \E ok \in BOOLEAN :
         /\ scope_called("begin", ok)
         /\ IF ok
            THEN /\ spc' = "body"
                 /\ UNCHANGED soutcome
            ELSE /\ spc' = "done"
                 /\ soutcome' = Raised(ScopeError("begin"))
    /\ UNCHANGED <<ssession, sbody, sexc, wvars, cvars>>

\* Line 6: the body of the with statement completes.
scope_body_returns ==
    /\ spc = "body"
    /\ sbody' = Returned("None")
    /\ spc' = after_body(Returned("None"))
    /\ UNCHANGED <<ssession, sexc, soutcome, calls, wvars, cvars>>

\* Line 6: the body raises, and the error is thrown in at the yield.
scope_body_raises ==
    /\ spc = "body"
    /\ \E k \in ErrorKinds :
         LET e == Err(k[1], k[2], "body", Len(calls[ssession]) + 1) IN
           /\ sbody' = Raised(e)
           /\ sexc' = e
           /\ spc' = after_body(Raised(e))
    /\ UNCHANGED <<ssession, soutcome, calls, wvars, cvars>>

\* Line 7: session.commit()
scope_commit ==
    /\ spc = "commit"
    /\ \E ok \in BOOLEAN :
         /\ scope_called("commit", ok)
         /\ sexc' = IF ok THEN sexc ELSE ScopeError("commit")
         /\ spc' = after_commit(ok, ScopeError("commit"))
    /\ UNCHANGED <<ssession, sbody, soutcome, wvars, cvars>>

\* Lines 9-10: session.rollback(); raise
scope_rollback ==
    /\ spc = "rollback"
    /\ \E ok \in BOOLEAN :
         /\ scope_called("rollback", ok)
         /\ sexc' = IF ok THEN sexc ELSE ScopeError("rollback")
         /\ spc' = after_rollback(ok)
    /\ UNCHANGED <<ssession, sbody, soutcome, wvars, cvars>>

\* Line 12: session.close(), then the error in flight, if any, leaves.
scope_close ==
    /\ spc = "close"
    /\ \E ok \in BOOLEAN :
         /\ scope_called("close", ok)
         /\ soutcome' = IF ~ok THEN Raised(ScopeError("close"))
                        ELSE IF sexc = NoExc THEN Returned("None")
                        ELSE Raised(sexc)
    /\ spc' = "done"
    /\ UNCHANGED <<ssession, sbody, sexc, wvars, cvars>>

\* Line 6, with a decorated method as the body of the with statement: at the
\* yield the body runs, and it invokes the method.
scope_body_calls ==
    /\ spc = "body"
    /\ \E c \in callers :
         /\ pc[c] = "waiting"
         /\ pc' = [pc EXCEPT ![c] = "idle"]
    /\ spc' = "inbody"
    /\ UNCHANGED <<retries, logger, callers, receiver, attempts, session, exc,
                   trace, results, logs, outcome, calls, ssession, sbody, sexc,
                   soutcome>>

\* Lines 6-8: the method is over (lines 61, 69-71, 82, 87 or an error that no
\* clause of wrapped took), and so is the body: its value is dropped, its
\* error is thrown in at the yield.
scope_body_ends ==
    /\ spc = "inbody"
    /\ \E c \in callers :
         /\ pc[c] = "done"
         /\ LET r == IF outcome[c].kind = "raised" THEN outcome[c]
                      ELSE Returned("None")
            IN  /\ sbody' = r
                /\ sexc' = IF r.kind = "raised" THEN r.exc ELSE sexc
                /\ spc' = after_body(r)
    /\ UNCHANGED <<ssession, soutcome, calls, wvars, cvars>>

\* ------------------------------------------------------- one invocation
\* One invocation of a decorated method: any retries up to MaxRetries, with or
\* without a logger, on any receiver.  session_scope is not in use.
InitConfig ==
    /\ retries \in 0 .. MaxRetries
    /\ logger \in BOOLEAN

InitWrapped(cs) ==
    /\ callers = cs
    /\ receiver \in [cs -> Receivers]
    /\ pc = [c \in cs |-> "idle"]
    /\ attempts = [c \in cs |-> 0]
    /\ session = [c \in cs |-> NoAttr]
    /\ exc = [c \in cs |-> NoExc]
    /\ trace = [c \in cs |-> <<>>]
    /\ results = [c \in cs |-> <<>>]
    /\ logs = [c \in cs |-> <<>>]
    /\ outcome = [c \in cs |-> NoOutcome]

InitSessions == calls = [s \in Sessions |-> <<>>]

InitNoScope ==
    /\ spc = "off"
    /\ ssession = NoAttr
    /\ sbody = NoOutcome
    /\ sexc = NoExc
    /\ soutcome = NoOutcome

Init ==
    /\ InitConfig
    /\ InitWrapped({1})
    /\ InitSessions
    /\ InitNoScope

Next ==
    \/ Enter
    \/ Loop
    \/ FuncReturns
    \/ FuncRaises
    \/ Close
    \/ Count
    \/ Sleep
    \/ Log
    \/ Begin
    \/ Rollback
    \/ Reraise

Spec == Init /\ [][Next]_vars

\* The same invocation, running to its end: wrapped is synchronous code on one
\* call stack, so as long as a step is possible one is taken (func, the
\* session calls and the sleep are assumed to finish).
SpecLive == Init /\ [][Next]_vars /\ WF_vars(Next)

\* ------------------------------------------------- concurrent invocations
\* Several callers invoke the decorated method at the same time, each on a
\* receiver of its own whose session is its own: caller c holds session c, as
\* _session (the first caller beside a _mapper that leads to someone else's
\* session) or as _mapper.session.  Their steps interleave freely.
OwnReceiver(c) ==
    CASE c % 3 = 1 -> [sess |-> c, mapper |-> (c % NumSessions) + 1]
      [] c % 3 = 2 -> [sess |-> NoAttr, mapper |-> c]
      [] OTHER     -> [sess |-> c, mapper |-> NoAttr]

\* A logger is given, so that every step of the wrapper is in the interleaving.
InitConcurrent ==
    /\ retries \in 0 .. MaxRetries
    /\ logger = TRUE
    /\ InitWrapped(1 .. NumCallers)
    /\ \A c \in callers : receiver[c] = OwnReceiver(c)
    /\ InitSessions
    /\ InitNoScope

SpecConcurrent == InitConcurrent /\ [][Next]_vars

\* ------------------------------------------------------ one use of the scope
\* One with statement over session_scope(session) on any session, with a body
\* that completes or raises.  No decorated method is invoked.
InitScope ==
    /\ spc = "idle"
    /\ ssession \in Sessions
    /\ sbody = NoOutcome
    /\ sexc = NoExc
    /\ soutcome = NoOutcome

InitScopeOnly ==
    /\ retries = 0
    /\ logger = FALSE
    /\ InitWrapped({})
    /\ InitSessions
    /\ InitScope

NextScope ==
    \/ scope_enter
    \/ scope_body_returns
    \/ scope_body_raises
    \/ scope_commit
    \/ scope_rollback
    \/ scope_close

SpecScope == InitScopeOnly /\ [][NextScope]_vars

\* ------------------------------------------- a decorated method in the scope
\* with session_scope(s): obj.method(), where method is decorated and the
\* wrapper resolves obj's session to s.  The invocation waits until the body
\* of the with statement runs.
InitNested ==
    /\ InitConfig
    /\ InitScope
    /\ callers = {1}
    /\ receiver \in [callers -> Receivers]
    /\ resolve_session(receiver[1]) = ssession
    /\ pc = [c \in callers |-> "waiting"]
    /\ attempts = [c \in callers |-> 0]
    /\ session = [c \in callers |-> NoAttr]
    /\ exc = [c \in callers |-> NoExc]
    /\ trace = [c \in callers |-> <<>>]
    /\ results = [c \in callers |-> <<>>]
    /\ logs = [c \in callers |-> <<>>]
    /\ outcome = [c \in callers |-> NoOutcome]
    /\ InitSessions

NextNested ==
    \/ scope_enter
    \/ scope_body_calls
    \/ Enter
    \/ Loop
    \/ FuncReturns
    \/ FuncRaises
    \/ Close
    \/ Count
    \/ Sleep
    \/ Log
    \/ Begin
    \/ Rollback
    \/ Reraise
    \/ scope_body_ends
    \/ scope_commit
    \/ scope_rollback
    \/ scope_close

SpecNested == InitNested /\ [][NextNested]_vars

\* ------------------------------------------------------------ vocabulary
Occurrences(seq, x) == Cardinality({i \in 1 .. Len(seq) : seq[i] = x})
IsPrefix(p, q) == Len(p) <= Len(q) /\ \A i \in 1 .. Len(p) : p[i] = q[i]
Last(seq) == seq[Len(seq)]

\* What the wrapper did after its latest invocation of func.
SinceLastCall(c) ==
    LET t == trace[c]
        p == CHOOSE i \in 0 .. Len(t) :
                 /\ i > 0 => t[i] = "call"
                 /\ \A j \in i + 1 .. Len(t) : t[j] # "call"
    IN  SubSeq(t, p + 1, Len(t))

\* The session calls of invocation c, on any session, all returned.
AllOk(c) ==
    \A s \in Sessions : \A i \in 1 .. Len(calls[s]) :
        calls[s][i].by = c => calls[s][i].ok

\* self has a _session or a _mapper, and the wrapper is past its entry.
Resolvable(c) == receiver[c].sess # NoAttr \/ receiver[c].mapper # NoAttr
Entered(c) == Resolvable(c) /\ pc[c] # "idle"

\* An invocation of func that raised a retryable conflict.
IsConflict(r) ==
    /\ r.kind = "raised"
    /\ r.exc.cls = "OperationalError"
    /\ is_retryable_exception(r.exc)

\* An invocation of func that raised a non-retryable error: an
\* OperationalError the classifier rejects, or another Exception.
IsNonRetryable(r) ==
    /\ r.kind = "raised"
    /\ \/ r.exc.cls = "OperationalError" /\ ~is_retryable_exception(r.exc)
       \/ r.exc.cls = "Exception"

AllConflicts(rs, n) == \A i \in 1 .. n : IsConflict(rs[i])

\* The calls the scope made on its session, in order, and whether each returned.
ScopeEntries ==
    LET ByScope(x) == x.by = Scope IN SelectSeq(calls[ssession], ByScope)
ScopeOps == [i \in 1 .. Len(ScopeEntries) |-> ScopeEntries[i].op]
ScopeAllOk == \A i \in 1 .. Len(ScopeEntries) : ScopeEntries[i].ok
ScopeRaisedIn(op) ==
    \E i \in 1 .. Len(ScopeEntries) :
        ScopeEntries[i].op = op /\ ~ScopeEntries[i].ok

\* ---------------------------------------------------------------- claims

\* C1: when func raises a retryable conflict k times (k <= retries) and then
\* returns, and no session call raises, the wrapper returns func's value,
\* having called close() k times, begin() k times and slept k times; and up
\* to then, after k <= retries conflicts, the wrapper has not given up.
C1_RetriesThenSuccess ==
    \A c \in callers :
        LET n == Len(results[c]) IN
        (Entered(c) /\ AllOk(c)) =>
          /\ (n <= retries /\ AllConflicts(results[c], n)) =>
                outcome[c].kind = "none"
          /\ (n >= 1 /\ AllConflicts(results[c], n - 1)
                /\ results[c][n].kind = "returned") =>
                /\ n - 1 <= retries
                /\ pc[c] = "done"
                /\ outcome[c] = Returned(results[c][n].value)
                /\ Occurrences(trace[c], "close") = n - 1
                /\ Occurrences(trace[c], "begin") = n - 1
                /\ Occurrences(trace[c], "sleep") = n - 1
                /\ Occurrences(trace[c], "rollback") = 0

\* C1's case: with retries = MaxRetries, func conflicted MaxRetries times and
\* then returned "ok".
C1_Witness ==
    \E c \in callers :
        /\ retries = MaxRetries
        /\ pc[c] = "done"
        /\ AllOk(c)
        /\ Len(results[c]) = MaxRetries + 1
        /\ AllConflicts(results[c], MaxRetries)
        /\ outcome[c] = Returned("ok")

C3_NoRetryNoSleepNoClose(c) ==
    LET n == Len(results[c]) IN
    /\ \A i \in 1 .. n : IsNonRetryable(results[c][i]) => i = n
    /\ (n >= 1 /\ IsNonRetryable(results[c][n])) =>
          /\ pc[c] \in {"rollback", "rebegin", "done"}
          /\ IsPrefix(SinceLastCall(c), <<"rollback", "begin">>)
          /\ n = 1 => /\ Occurrences(trace[c], "sleep") = 0
                      /\ Occurrences(trace[c], "call") = 1
                      /\ attempts[c] = 0

\* C3 as stated: when func raises a non-retryable error, the wrapper calls
\* rollback() and then begin() and re-raises that exact error, with no sleep,
\* no further invocation and no close() for it.
C3_Original ==
    \A c \in callers :
        LET n == Len(results[c]) IN
        /\ C3_NoRetryNoSleepNoClose(c)
        /\ (n >= 1 /\ IsNonRetryable(results[c][n]) /\ pc[c] = "done") =>
              /\ SinceLastCall(c) = <<"rollback", "begin">>
              /\ outcome[c] = Raised(results[c][n].exc)

\* What the code does on a non-retryable error (C3 and C16): the wrapper
\* calls rollback() and, if that returns, begin(); if both return it re-raises
\* the exact error; if rollback() or begin() raises, the error of that call
\* leaves the wrapper instead.  In no case does it
\* sleep, invoke func again or call close().
C3_NonRetryable ==
    \A c \in callers :
        LET n == Len(results[c]) IN
        /\ C3_NoRetryNoSleepNoClose(c)
        /\ (n >= 1 /\ IsNonRetryable(results[c][n]) /\ pc[c] = "done") =>
              IF AllOk(c)
              THEN /\ SinceLastCall(c) = <<"rollback", "begin">>
                   /\ outcome[c] = Raised(results[c][n].exc)
              ELSE /\ outcome[c].kind = "raised"
                   /\ outcome[c].exc.cls = "OperationalError"
                   /\ outcome[c].exc.src = Last(trace[c])
                   /\ outcome[c].exc # results[c][n].exc

\* C3's case: after one retry, func raised an OperationalError that is not
\* retryable, and the wrapper rolled back, began and re-raised it.
C3_Witness ==
    \E c \in callers :
        /\ pc[c] = "done"
        /\ AllOk(c)
        /\ Len(results[c]) = 2
        /\ results[c][2].kind = "raised"
        /\ results[c][2].exc.cls = "OperationalError"
        /\ ~is_retryable_exception(results[c][2].exc)
        /\ outcome[c] = Raised(results[c][2].exc)
        /\ SinceLastCall(c) = <<"rollback", "begin">>

\* C4: when the body completes and no session call raises, session_scope
\* issues begin, commit, close, once each and in that order, and no rollback.
C4_ScopeSuccess ==
    (spc = "done" /\ sbody.kind = "returned" /\ ScopeAllOk) =>
        /\ ScopeOps = <<"begin", "commit", "close">>
        /\ soutcome.kind = "returned"

\* C4's case: a with statement whose body completed has been left normally.
C4_Witness ==
    /\ spc = "done"
    /\ sbody.kind = "returned"
    /\ ScopeAllOk
    /\ soutcome.kind = "returned"

\* C5: when the body raises any error and no session call raises,
\* session_scope issues begin, rollback, close, once each and in that order,
\* no commit, and the caller receives the body's error itself.
C5_ScopeFailure ==
    (spc = "done" /\ sbody.kind = "raised" /\ ScopeAllOk) =>
        /\ ScopeOps = <<"begin", "rollback", "close">>
        /\ soutcome = Raised(sbody.exc)
        /\ sbody.exc.src = "body"

\* C5's case: the body raised an error that is no Exception, and it reached
\* the caller after rollback and close.
C5_Witness ==
    /\ spc = "done"
    /\ ScopeAllOk
    /\ sbody.kind = "raised"
    /\ sbody.exc.cls = "BaseException"
    /\ soutcome = Raised(sbody.exc)
    /\ ScopeOps = <<"begin", "rollback", "close">>

\* C6: when commit() raises, and when rollback() raises, session_scope still
\* calls close() exactly once, as its last session call, after the commit or
\* rollback attempt.
C6_CloseAfterFailedCommitOrRollback ==
    (spc = "done" /\ (ScopeRaisedIn("commit") \/ ScopeRaisedIn("rollback"))) =>
        /\ Occurrences(ScopeOps, "close") = 1
        /\ Last(ScopeOps) = "close"
        /\ \A i \in 1 .. Len(ScopeOps) :
              ScopeOps[i] \in {"commit", "rollback"} => i < Len(ScopeOps)

\* C6's case: commit() raised, then rollback() raised, and the scope has been
\* left.
C6_Witness ==
    /\ spc = "done"
    /\ ScopeRaisedIn("commit")
    /\ ScopeRaisedIn("rollback")
    /\ Last(ScopeOps) = "close"

C8_Original ==
    spc = "done" =>
        /\ ScopeOps \in {<<"begin", "commit", "close">>,
                         <<"begin", "rollback", "close">>}
        /\ ~(Occurrences(ScopeOps, "commit") > 0 /\ Occurrences(ScopeOps, "rollback") > 0)

\* C8 amended: the calls are begin, commit, close when the body completes and
\* commit() returns; begin, rollback, close when the body raises; begin,
\* commit, rollback, close when commit() raises; and begin alone when begin()
\* raises.
C8_CallSequences ==
    spc = "done" =>
        ScopeOps =
            IF ScopeRaisedIn("begin") THEN <<"begin">>
            ELSE IF sbody.kind = "raised" THEN <<"begin", "rollback", "close">>
            ELSE IF ScopeRaisedIn("commit")
                 THEN <<"begin", "commit", "rollback", "close">>
                 ELSE <<"begin", "commit", "close">>

\* C8's case: commit() raised and the scope called rollback() as well.
C8_Witness ==
    /\ spc = "done"
    /\ sbody.kind = "returned"
    /\ ScopeRaisedIn("commit")
    /\ ScopeOps = <<"begin", "commit", "rollback", "close">>
    /\ soutcome.kind = "raised"
    /\ soutcome.exc.src = "commit"

\* C9: when self has neither _session nor _mapper, the wrapper raises
\* RuntimeError at once: no session call on any session, no invocation of
\* func, no sleep, no retry, whatever retries is.
C9_InvalidUsage ==
    \A c \in callers :
        (receiver[c].sess = NoAttr /\ receiver[c].mapper = NoAttr) =>
            /\ pc[c] \in {"idle", "done"}
            /\ trace[c] = <<>>
            /\ results[c] = <<>>
            /\ logs[c] = <<>>
            /\ attempts[c] = 0
            /\ \A s \in Sessions : \A i \in 1 .. Len(calls[s]) : calls[s][i].by # c
            /\ pc[c] = "done" =>
                  /\ outcome[c].kind = "raised"
                  /\ outcome[c].exc.cls = "RuntimeError"

\* C9's case: retries = MaxRetries, self has neither attribute, and the
\* wrapper has ended with RuntimeError.
C9_Witness ==
    \E c \in callers :
        /\ retries = MaxRetries
        /\ receiver[c].sess = NoAttr
        /\ receiver[c].mapper = NoAttr
        /\ pc[c] = "done"
        /\ outcome[c].exc.cls = "RuntimeError"

\* The three ways an invocation can end.
ReturnsFuncValue(c) ==
    /\ outcome[c].kind = "returned"
    /\ results[c] # <<>>
    /\ Last(results[c]) = Returned(outcome[c].value)

RaisesOriginalError(c) ==
    /\ outcome[c].kind = "raised"
    /\ results[c] # <<>>
    /\ Last(results[c]).kind = "raised"
    /\ ~IsConflict(Last(results[c]))
    /\ outcome[c] = Raised(Last(results[c]).exc)

RaisesUnresolved(c) ==
    /\ outcome[c].kind = "raised"
    /\ outcome[c].exc.cls = "UnresolvedDatabaseConflict"
    /\ Len(results[c]) = retries + 1
    /\ AllConflicts(results[c], Len(results[c]))
    /\ attempts[c] > retries

\* C10: with a resolvable session whose calls do not raise, an invocation of
\* the wrapper ends in exactly one of three ways: it returns the value func
\* returned, it raises func's non-retryable error itself, or it raises
\* UnresolvedDatabaseConflict with the budget exhausted.  An error caught from
\* func is followed by another invocation or by a raise.
C10_ThreeOutcomes ==
    \A c \in callers :
        (Entered(c) /\ AllOk(c)) =>
          /\ pc[c] = "done" =>
                Cardinality({k \in 1 .. 3 :
                    \/ k = 1 /\ ReturnsFuncValue(c)
                    \/ k = 2 /\ RaisesOriginalError(c)
                    \/ k = 3 /\ RaisesUnresolved(c)}) = 1
          /\ pc[c] # "done" => outcome[c].kind = "none"
          /\ \A i \in 1 .. Len(results[c]) :
                results[c][i].kind = "raised" =>
                    \/ i < Len(results[c]) /\ IsConflict(results[c][i])
                    \/ pc[c] # "done"
                    \/ outcome[c].kind = "raised"

\* C10's case: after one retry func raised an error that is no Exception, and
\* the wrapper let it through.
C10_Witness ==
    \E c \in callers :
        /\ pc[c] = "done"
        /\ AllOk(c)
        /\ Len(results[c]) = 2
        /\ results[c][2].kind = "raised"
        /\ results[c][2].exc.cls = "BaseException"
        /\ RaisesOriginalError(c)

\* The latest session call of invocation c, "none" if it has made none.
LastSessionCall(c) ==
    LET t == trace[c]
        I == {i \in 1 .. Len(t) : t[i] \in SessionOps}
    IN  IF I = {} THEN "none"
        ELSE t[CHOOSE i \in I : \A j \in I : j <= i]

\* The session calls of invocation c: <<s, i>> for the i-th call on session s.
CallsBy(c) ==
    UNION {{<<s, i>> : i \in {j \in 1 .. Len(calls[s]) : calls[s][j].by = c}} :
              s \in Sessions}

\* C11: when an invocation of func returns, first attempt or not, the wrapper
\* returns that value at once: no session call, sleep or log comes after the
\* invocation; and when the first attempt returns, the wrapper has made no
\* session call at all.
C11_ReturnIsImmediate ==
    \A c \in callers :
        LET n == Len(results[c]) IN
        (n >= 1 /\ results[c][n].kind = "returned") =>
            /\ pc[c] = "done"
            /\ outcome[c] = Returned(results[c][n].value)
            /\ Last(trace[c]) = "call"
            /\ Len(logs[c]) = Occurrences(trace[c], "log")
            /\ Cardinality(CallsBy(c)) =
                  Cardinality({i \in 1 .. Len(trace[c]) : trace[c][i] \in SessionOps})
            /\ Cardinality(CallsBy(c)) = 2 * (n - 1)
            /\ n = 1 => /\ trace[c] = <<"call">>
                        /\ CallsBy(c) = {}

\* C11's case: func returned on the second attempt and the wrapper returned
\* its value, the retry's begin() being its latest session call.
C11_Witness ==
    \E c \in callers :
        /\ pc[c] = "done"
        /\ Len(results[c]) = 2
        /\ results[c][2] = Returned("row")
        /\ outcome[c] = Returned("row")
        /\ Last(trace[c]) = "call"
        /\ Cardinality(CallsBy(c)) = 2

\* The ways invocation c can be at an exit or at the start of an attempt.
AboutToRetry(c) == pc[c] = "loop" /\ attempts[c] > 0
ReraisingAfterRollback(c) ==
    /\ pc[c] = "done"
    /\ results[c] # <<>>
    /\ IsNonRetryable(Last(results[c]))
    /\ outcome[c] = Raised(Last(results[c]).exc)
    /\ Occurrences(SinceLastCall(c), "rollback") = 1
ExitsUnresolved(c) ==
    pc[c] = "done" /\ outcome[c].exc.cls = "UnresolvedDatabaseConflict"
\* func returned, or raised an error no except clause takes, in a retry.
LeavesRetriedAttempt(c) ==
    /\ pc[c] = "done"
    /\ attempts[c] > 0
    /\ results[c] # <<>>
    /\ outcome[c] = Last(results[c])
    /\ ~IsNonRetryable(Last(results[c]))
BeginItselfRaised(c) ==
    pc[c] = "done" /\ outcome[c].exc.src = "begin"

\* C12 as stated: when the wrapper exits or starts an attempt, its latest
\* session call is begin() if and only if func is about to be retried or a
\* non-retryable error is being re-raised after rollback(); and when it exits
\* with UnresolvedDatabaseConflict its latest session call is close().
C12_Original ==
    \A c \in callers :
        /\ pc[c] \in {"loop", "done"} =>
              (LastSessionCall(c) = "begin"
                  <=> (AboutToRetry(c) \/ ReraisingAfterRollback(c)))
        /\ ExitsUnresolved(c) => LastSessionCall(c) = "close"

\* C12 amended: the latest session call is begin() when func is about to be
\* retried and when a non-retryable error is re-raised after rollback(), and
\* close() when the wrapper exits with UnresolvedDatabaseConflict; but it is
\* begin() also when the wrapper leaves a retried attempt by func's return or
\* by an error no except clause takes, and when a begin() itself raised; and
\* in no other case.
C12_LastSessionCall ==
    \A c \in callers :
        /\ pc[c] \in {"loop", "done"} =>
              (LastSessionCall(c) = "begin"
                  <=> \/ AboutToRetry(c)
                      \/ ReraisingAfterRollback(c)
                      \/ LeavesRetriedAttempt(c)
                      \/ BeginItselfRaised(c))
        /\ ExitsUnresolved(c) =>
              /\ LastSessionCall(c) = "close"
              /\ Last(trace[c]) = "close"

\* C12's case: func returned in a retried attempt, no session call having
\* raised, and the wrapper's latest session call is the retry's begin().
C12_Witness ==
    \E c \in callers :
        /\ pc[c] = "done"
        /\ AllOk(c)
        /\ outcome[c].kind = "returned"
        /\ attempts[c] = 1
        /\ LastSessionCall(c) = "begin"
        /\ ~AboutToRetry(c)
        /\ ~ReraisingAfterRollback(c)

NumConflicts(rs) == Cardinality({i \in 1 .. Len(rs) : IsConflict(rs[i])})

\* In every state: attempts is between 0 and retries + 1 and counts the
\* conflicts caught so far, func has been invoked at most retries + 1 times,
\* and an invocation is only about to happen while attempts <= retries.
C13_Bounds(c) ==
    /\ attempts[c] \in 0 .. retries + 1
    /\ Len(results[c]) <= retries + 1
    /\ Occurrences(trace[c], "call") = Len(results[c])
    /\ pc[c] = "call" => attempts[c] <= retries
    /\ attempts[c] <= NumConflicts(results[c])
    /\ attempts[c] >= NumConflicts(results[c]) - 1
    /\ pc[c] \in {"loop", "call", "sleep", "log", "begin"} =>
          attempts[c] = NumConflicts(results[c])

\* In every step: attempts never decreases, it changes only by 1 and only for
\* a retryable conflict just caught (after its close()), and func is invoked
\* only with attempts <= retries.
C13_Steps(c) ==
    /\ attempts'[c] >= attempts[c]
    /\ attempts'[c] # attempts[c] =>
          /\ attempts'[c] = attempts[c] + 1
          /\ pc[c] = "count"
          /\ IsConflict(Last(results[c]))
          /\ exc[c] = Last(results[c]).exc
          /\ attempts[c] = NumConflicts(results[c]) - 1
    /\ results'[c] # results[c] => attempts[c] <= retries

\* C13: the attempt counter stays within 0 .. retries + 1, only ever grows,
\* by 1 per caught retryable conflict; func is invoked at most retries + 1
\* times and only while attempts <= retries.
C13_AttemptCounter ==
    /\ [](\A c \in callers : C13_Bounds(c))
    /\ [][\A c \in callers : C13_Steps(c)]_vars

\* C13's case: with retries = MaxRetries the counter has reached retries + 1
\* after retries + 1 invocations.
C13_Witness ==
    \E c \in callers :
        /\ retries = MaxRetries
        /\ attempts[c] = retries + 1
        /\ Len(results[c]) = retries + 1

Terminal(c) == pc[c] = "done" /\ outcome[c].kind \in {"returned", "raised"}

\* Once invocation c has ended nothing of it changes any more: no invocation
\* of func, no session call, no sleep, no log.
C14_TerminalIsFinal(c) ==
    Terminal(c) =>
        /\ Terminal(c)'
        /\ trace'[c] = trace[c]
        /\ results'[c] = results[c]
        /\ logs'[c] = logs[c]
        /\ outcome'[c] = outcome[c]
        /\ attempts'[c] = attempts[c]
        /\ CallsBy(c)' = CallsBy(c)

\* A caught retryable conflict leads to another attempt only while the
\* budget lasts, and to UnresolvedDatabaseConflict otherwise.
C14_RetryOnlyWithinBudget(c) ==
    (pc[c] = "count" /\ pc'[c] # "count") =>
        \/ pc'[c] = "sleep" /\ attempts'[c] <= retries /\ outcome'[c].kind = "none"
        \/ ExitsUnresolved(c)' /\ attempts'[c] > retries

\* C14: every invocation of the wrapper ends, returning or raising, whatever
\* retries is and however func fails; once ended it does nothing more; and a
\* retryable failure leads to another attempt only while budget remains.
C14_Terminates ==
    /\ <>(\A c \in callers : Terminal(c))
    /\ [][\A c \in callers : C14_TerminalIsFinal(c) /\ C14_RetryOnlyWithinBudget(c)]_vars
    /\ [](\A c \in callers : pc[c] \in {"loop", "call"} => attempts[c] <= retries)

\* C14's case: with retries = MaxRetries, an invocation that went through
\* MaxRetries retries has ended by an error of func.
C14_Witness ==
    \E c \in callers :
        /\ retries = MaxRetries
        /\ Terminal(c)
        /\ attempts[c] = MaxRetries
        /\ Len(results[c]) = MaxRetries + 1
        /\ outcome[c] = Raised(Last(results[c]).exc)

\* What the wrapper does between two invocations of func.
RetrySteps ==
    IF logger THEN <<"close", "sleep", "log", "begin">>
    ELSE <<"close", "sleep", "begin">>

\* The order of the wrapper's steps around each caught retryable conflict.
C15_Order(c) ==
    LET t == trace[c] IN
    /\ \A i \in 1 .. Len(t) :
          /\ (t[i] = "call" /\ i > 1) =>
                /\ i > Len(RetrySteps) + 1
                /\ SubSeq(t, i - Len(RetrySteps), i - 1) = RetrySteps
                /\ t[i - Len(RetrySteps) - 1] = "call"
          /\ t[i] = "close" => i > 1 /\ t[i - 1] = "call"
          /\ t[i] = "sleep" => t[i - 1] = "close"
          /\ t[i] = "log" => logger /\ t[i - 1] = "sleep"
          /\ t[i] = "begin" =>
                t[i - 1] \in {IF logger THEN "log" ELSE "sleep", "rollback"}
    \* attempts is incremented after close() and before the sleep
    /\ pc[c] = "count" =>
          Last(t) = "close" /\ attempts[c] = Occurrences(t, "close") - 1
    /\ pc[c] \in {"sleep", "log", "begin"} =>
          /\ attempts[c] = Occurrences(t, "close")
          /\ attempts[c] = Occurrences(t, "sleep") + (IF pc[c] = "sleep" THEN 1 ELSE 0)
    \* the debug message carries the new attempt number
    /\ Len(logs[c]) = Occurrences(t, "log")
    /\ \A i \in 1 .. Len(logs[c]) : logs[c][i] = i
    /\ pc[c] = "begin" /\ logger => Last(logs[c]) = attempts[c]
    \* the conflict that exhausts the budget: close(), then the error
    /\ ExitsUnresolved(c) =>
          /\ SinceLastCall(c) = <<"close">>
          /\ Occurrences(t, "close") = retries + 1
          /\ Occurrences(t, "begin") = retries
          /\ Occurrences(t, "sleep") = retries

C16_OriginalErrorSurvives ==
    \A c \in callers :
        (pc[c] = "done" /\ results[c] # <<>> /\ IsNonRetryable(Last(results[c]))) =>
            /\ outcome[c].kind = "raised"
            /\ outcome[c].exc = Last(results[c]).exc

OwnSession(c) ==
    IF receiver[c].sess # NoAttr THEN receiver[c].sess ELSE receiver[c].mapper

\* C18: with several callers in the wrapper at once, each on its own receiver
\* and session, in any interleaving: each invocation counts its own conflicts
\* from 0 and has its full budget of retries + 1 attempts whatever the others
\* hit, and it calls close/begin/rollback only on the session of its own
\* receiver.
C18_CallersAreIndependent ==
    \A c \in callers :
        LET n == Len(results[c]) IN
        /\ \A d \in callers : d # c => OwnSession(d) # OwnSession(c)
        \* its own counter
        /\ pc[c] = "idle" => attempts[c] = 0
        /\ attempts[c] <= NumConflicts(results[c])
        /\ attempts[c] >= NumConflicts(results[c]) - 1
        /\ pc[c] \in {"loop", "call", "sleep", "log", "begin"} =>
              attempts[c] = NumConflicts(results[c])
        \* its full budget
        /\ n <= retries + 1
        /\ (Entered(c) /\ AllOk(c) /\ n <= retries /\ AllConflicts(results[c], n)) =>
              outcome[c].kind = "none"
        /\ ExitsUnresolved(c) =>
              n = retries + 1 /\ AllConflicts(results[c], n)
        \* its own session
        /\ pc[c] # "idle" => session[c] = OwnSession(c)
        /\ \A s \in Sessions : \A i \in 1 .. Len(calls[s]) :
              calls[s][i].by = c => s = OwnSession(c)
        /\ Cardinality(CallsBy(c)) =
              Cardinality({i \in 1 .. Len(trace[c]) : trace[c][i] \in SessionOps})

\* C18's case: with retries = MaxRetries one caller has used up its budget
\* while another, interleaved with it, has only just had its first conflict
\* and a third party's session is untouched.
C18_Witness ==
    \E c, d \in callers :
        /\ c # d
        /\ retries = MaxRetries
        /\ ExitsUnresolved(c)
        /\ attempts[c] = MaxRetries + 1
        /\ pc[d] = "call"
        /\ attempts[d] = 1
        /\ Len(calls[OwnSession(c)]) = 2 * MaxRetries + 1
        /\ Len(calls[OwnSession(d)]) = 2

\* The calls made on the scope's session, by the scope and by the method.
NestedOps == [i \in 1 .. Len(calls[ssession]) |-> calls[ssession][i].op]
NestedAllOk == \A i \in 1 .. Len(calls[ssession]) : calls[ssession][i].ok
EndsTransaction(op) == op \in {"commit", "rollback", "close"}

\* After the first j calls a transaction is open: one of them was begin() and
\* no commit(), rollback() or close() came after it.
OpenAfter(j) ==
    \E i \in 1 .. j :
        /\ NestedOps[i] = "begin"
        /\ \A k \in (i + 1) .. j : ~EndsTransaction(NestedOps[k])

\* C19: a decorated method as the body of session_scope on the same session,
\* no session call raising: whatever the outcome of the method, begin() is
\* never called while a transaction is open, and once the scope is left the
\* sequence of calls ends with close() and no transaction is open.
C19_NoNestedBeginEndsClosed ==
    NestedAllOk =>
        /\ \A j \in 1 .. Len(NestedOps) :
              NestedOps[j] = "begin" => ~OpenAfter(j - 1)
        /\ spc = "done" =>
              /\ Len(NestedOps) > 0
              /\ Last(NestedOps) = "close"
              /\ ~OpenAfter(Len(NestedOps))
        /\ \A s \in Sessions \ {ssession} : calls[s] = <<>>

\* C19's case: the method raised a non-retryable error; the wrapper rolled
\* back and began again, the scope rolled that transaction back and closed.
C19_Witness ==
    /\ spc = "done"
    /\ NestedAllOk
    /\ \E c \in callers : Len(results[c]) = 1 /\ IsNonRetryable(results[c][1])
    /\ NestedOps = <<"begin", "rollback", "begin", "rollback", "close">>
    /\ soutcome.kind = "raised"

====
